---------------------------- MODULE Spec2Model ----------------------------
(***************************************************************************)
(* Model of the chess legality core (src/src/piece.rs) and of the minimax  *)
(* search (src/src/algorithm.rs).                                          *)
(*                                                                         *)
(* Boards are functions board[x][y] with x, y in 0..7 (the source indexes  *)
(* its arrays [x][y]); a coordinate is the pair <<x, y>>.  An Option<T> of *)
(* the source is a sequence: << >> for None and <<v>> for Some(v).         *)
(***************************************************************************)
EXTENDS Integers, Sequences, FiniteSets, TLC

VARIABLES
    board,                  \* position: signed piece ids
    turns_board,            \* position: per-square move counts
    last_turn_coordinates,  \* position: square last moved to
    op,                     \* the operation applied last
    piece_coordinates,      \* request: origin
    move_coordinates,       \* request: destination
    moves_board,            \* grid returned by gen_moves
    result_board,           \* board returned by valid_move
    team_white,             \* request: the side given to gen_all_moves or gen_enemy_moves
    ordered_moves,          \* list returned by order_moves
    game,                   \* search: the game the collaborator plays
    position,               \* search: current position of that game
    transposition_table,    \* search: hash -> TranspositionInfo
    search                  \* search: request and result of the last best_move

vars == <<board, turns_board, last_turn_coordinates, op, piece_coordinates,
          move_coordinates, moves_board, result_board, team_white,
          ordered_moves, game, position, transposition_table, search>>

pieceVars == <<board, turns_board, last_turn_coordinates, op, piece_coordinates,
               move_coordinates, moves_board, result_board, team_white,
               ordered_moves>>

searchVars == <<game, position, transposition_table, search>>

----------------------------------------------------------------------------
(* Board primitives (crate root, used by piece.rs)                          *)

BOARD_SIZE == <<8, 8>>

MAX_SLIDES == 8

Xs == 0 .. (BOARD_SIZE[1] - 1)

Ys == 0 .. (BOARD_SIZE[2] - 1)

Squares == {<<x, y>> : x \in Xs, y \in Ys}

EmptyBoard == [x \in Xs |-> [y \in Ys |-> 0]]

abs(n) == IF n < 0 THEN 0 - n ELSE n

get_board(c, b) == b[c[1]][c[2]]

set_board(c, v, b) == [b EXCEPT ![c[1]][c[2]] = v]

fits_in_board(c) == c[1] \in Xs /\ c[2] \in Ys

friendly_piece(id1, id2) == (id1 > 0 /\ id2 > 0) \/ (id1 < 0 /\ id2 < 0)

piece_white(id) == id > 0

flip_coordinates(c) == <<BOARD_SIZE[1] - 1 - c[1], BOARD_SIZE[2] - 1 - c[2]>>

invert_board(b) ==
    [x \in Xs |-> [y \in Ys |-> b[BOARD_SIZE[1] - 1 - x][BOARD_SIZE[2] - 1 - y]]]

move_board_value(from, to, replace, b) ==
    set_board(from, replace, set_board(to, get_board(from, b), b))

unwrap_def(opt, def) == IF opt = << >> THEN def ELSE opt[1]

\* e, with v evaluated first: a grid that a loop updates is computed at each
\* iteration, as a `let mut` of the source is
strict(v, e) == IF v = v THEN e ELSE e

----------------------------------------------------------------------------
(* Piece catalog (piece.rs, mod info)                                       *)

IDS == <<1, 2, 3, 4, 5, 6>>

Z2 == <<0, 0>>

pawn ==
    [id |-> IDS[1], value |-> 1, sliding |-> TRUE, slide_no |-> <<2>>,
     mdirs |-> <<<<0, 1>>, Z2, Z2, Z2, Z2, Z2, Z2, Z2>>, mdir_no |-> 1,
     mdirs_cap |-> << <<<<1, 1>>, <<-1, 1>>>> >>,
     condition_adj |-> << <<<<1, 0>>, <<-1, 0>>>> >>,
     condition_self_y |-> <<4>>, condition_subj_moves |-> <<1>>]

rook ==
    [id |-> IDS[2], value |-> 5, sliding |-> TRUE, slide_no |-> << >>,
     mdirs |-> <<<<1, 0>>, <<-1, 0>>, <<0, 1>>, <<0, -1>>, Z2, Z2, Z2, Z2>>,
     mdir_no |-> 4,
     mdirs_cap |-> << >>, condition_adj |-> << >>,
     condition_self_y |-> << >>, condition_subj_moves |-> << >>]

knight ==
    [id |-> IDS[3], value |-> 3, sliding |-> FALSE, slide_no |-> << >>,
     mdirs |-> <<<<1, 2>>, <<2, 1>>, <<1, -2>>, <<-1, 2>>,
                 <<2, -1>>, <<-2, 1>>, <<-2, -1>>, <<-1, -2>>>>,
     mdir_no |-> 8,
     mdirs_cap |-> << >>, condition_adj |-> << >>,
     condition_self_y |-> << >>, condition_subj_moves |-> << >>]

bishop ==
    [id |-> IDS[4], value |-> 3, sliding |-> TRUE, slide_no |-> << >>,
     mdirs |-> <<<<1, 1>>, <<1, -1>>, <<-1, 1>>, <<-1, -1>>, Z2, Z2, Z2, Z2>>,
     mdir_no |-> 4,
     mdirs_cap |-> << >>, condition_adj |-> << >>,
     condition_self_y |-> << >>, condition_subj_moves |-> << >>]

queen ==
    [id |-> IDS[5], value |-> 9, sliding |-> TRUE, slide_no |-> << >>,
     mdirs |-> <<<<1, 0>>, <<-1, 0>>, <<0, 1>>, <<0, -1>>,
                 <<1, 1>>, <<1, -1>>, <<-1, 1>>, <<-1, -1>>>>,
     mdir_no |-> 8,
     mdirs_cap |-> << >>, condition_adj |-> << >>,
     condition_self_y |-> << >>, condition_subj_moves |-> << >>]

king ==
    [id |-> IDS[6], value |-> 127, sliding |-> FALSE, slide_no |-> << >>,
     mdirs |-> <<<<1, 0>>, <<-1, 0>>, <<0, 1>>, <<0, -1>>,
                 <<1, 1>>, <<1, -1>>, <<-1, 1>>, <<-1, -1>>>>,
     mdir_no |-> 8,
     mdirs_cap |-> << >>, condition_adj |-> << >>,
     condition_self_y |-> << >>, condition_subj_moves |-> << >>]

\* pieces[i] of the source (0-based) is instantiate_all[i + 1]
instantiate_all ==
    LET piece_array_def == <<pawn, rook, knight, bishop, queen, king>>
    IN  [k \in 1 .. 6 |->
            LET i == CHOOSE i \in 1 .. 6 : IDS[i] - 1 = k - 1
            IN  piece_array_def[i]]

----------------------------------------------------------------------------
(* Move generator (piece.rs, mod moves)                                     *)

\* captures_by_stepping without its test of the occupant's side
captures_by_stepping_any_side(id, move_coordinates_id, special_capture) ==
    /\ move_coordinates_id # 0
    /\ ~special_capture

\* captures_by_stepping without its test for a special-capture piece
captures_by_stepping_any_piece(id, move_coordinates_id, special_capture) ==
    /\ ~friendly_piece(id, move_coordinates_id)
    /\ move_coordinates_id # 0

\* the standard-move branch taken on an occupied square (piece.rs line 473)
captures_by_stepping(id, move_coordinates_id, special_capture) ==
    /\ ~friendly_piece(id, move_coordinates_id)
    /\ move_coordinates_id # 0
    /\ ~special_capture

\* the inner loop j of the standard moves: the steps from step j on
RECURSIVE slide(_, _, _, _, _, _, _, _)
slide(id, mdir, current, j, slide_no, special_capture, b, mb) ==
    IF j >= slide_no THEN mb
    ELSE
        LET mc == <<current[1] + mdir[1], current[2] + mdir[2]>>
            move_val == IF special_capture THEN 2 ELSE 1
        IN  IF ~fits_in_board(mc) THEN mb
            ELSE IF get_board(mc, b) = 0
                 THEN LET marked == set_board(mc, move_val, mb)
                      IN  strict(marked, slide(id, mdir, mc, j + 1, slide_no,
                                               special_capture, b, marked))
            ELSE IF captures_by_stepping(id, get_board(mc, b), special_capture)
                 THEN set_board(mc, move_val, mb)
            ELSE mb

\* the outer loop i of the standard moves: directions i .. mdir_no - 1
RECURSIVE standard_moves(_, _, _, _, _, _, _, _, _)
standard_moves(id, pc, mdirs, i, mdir_no, slide_no, special_capture, b, mb) ==
    IF i >= mdir_no THEN mb
    ELSE LET slid == slide(id, mdirs[i + 1], pc, 0, slide_no, special_capture, b, mb)
         IN  strict(slid, standard_moves(id, pc, mdirs, i + 1, mdir_no, slide_no,
                                         special_capture, b, slid))

\* special_capture_step without its test of the occupant's side
special_capture_step_any_side(id, pc, cap, b, mb) ==
    LET capture_coordinates == <<pc[1] + cap[1], pc[2] + cap[2]>>
    IN  IF /\ fits_in_board(capture_coordinates)
           /\ get_board(capture_coordinates, b) # 0
        THEN set_board(capture_coordinates, 1, mb)
        ELSE mb

\* one iteration of the special-capture loop (piece.rs lines 390-407)
special_capture_step(id, pc, cap, b, mb) ==
    LET capture_coordinates == <<pc[1] + cap[1], pc[2] + cap[2]>>
    IN  IF /\ fits_in_board(capture_coordinates)
           /\ ~friendly_piece(id, get_board(capture_coordinates, b))
           /\ get_board(capture_coordinates, b) # 0
        THEN set_board(capture_coordinates, 1, mb)
        ELSE mb

\* conditional_capture_ok without its test of the captured piece's move count
conditional_capture_ok_any_count(id, pc, capture_coordinates, condition_coordinates, b, tb, last, condition_self_y, condition_subj_moves) ==
    /\ fits_in_board(capture_coordinates)
    /\ fits_in_board(condition_coordinates)
    /\ condition_coordinates = last
    /\ ~friendly_piece(id, get_board(condition_coordinates, b))
    /\ pc[2] = condition_self_y
    /\ get_board(capture_coordinates, b) = 0

\* the conditions of a conditional capture (piece.rs lines 427-434)
conditional_capture_ok(id, pc, capture_coordinates, condition_coordinates, b, tb, last, condition_self_y, condition_subj_moves) ==
    /\ fits_in_board(capture_coordinates)
    /\ fits_in_board(condition_coordinates)
    /\ condition_coordinates = last
    /\ ~friendly_piece(id, get_board(condition_coordinates, b))
    /\ get_board(condition_coordinates, tb) = condition_subj_moves
    /\ pc[2] = condition_self_y
    /\ get_board(capture_coordinates, b) = 0

\* one iteration of the conditional-capture loop (piece.rs lines 412-447)
conditional_capture_step(id, pc, cap, adj, b, tb, last, self_y, subj_moves, mb) ==
    LET capture_coordinates == <<pc[1] + cap[1], pc[2] + cap[2]>>
        condition_coordinates == <<pc[1] + adj[1], pc[2] + adj[2]>>
    IN  IF conditional_capture_ok(id, pc, capture_coordinates, condition_coordinates,
                                  b, tb, last, self_y, subj_moves)
        THEN set_board(condition_coordinates, -1,
                       set_board(capture_coordinates, 1, mb))
        ELSE mb

\* effective_slide_no with the catalog's cap applied at any move count
effective_slide_no_any_count(piece, turns) ==
    IF ~piece.sliding THEN 1 ELSE unwrap_def(piece.slide_no, MAX_SLIDES)

\* the number of steps a piece may slide (piece.rs lines 338-354)
effective_slide_no(piece, turns) ==
    LET slides == IF turns # 0 THEN FALSE ELSE piece.sliding
    IN  IF ~slides THEN 1 ELSE unwrap_def(piece.slide_no, MAX_SLIDES)

gen_moves(pc, b, tb, seed, last) ==
    LET id == get_board(pc, b)
    IN  IF id = 0 THEN EmptyBoard
        ELSE
        LET pieces == instantiate_all
            pieces_index == (IF id < 0 THEN id * (-1) ELSE id) - 1
            piece == pieces[pieces_index + 1]
            slide_no == effective_slide_no(piece, get_board(pc, tb))
            special_capture == piece.mdirs_cap # << >>
            mdir_no == IF special_capture THEN 2 ELSE piece.mdir_no
            conditional_capture == piece.condition_adj # << >>
            mdirs_cap == unwrap_def(piece.mdirs_cap, <<Z2, Z2>>)
            condition_adj == unwrap_def(piece.condition_adj, <<Z2, Z2>>)
            condition_self_y == unwrap_def(piece.condition_self_y, 0)
            condition_subj_moves == unwrap_def(piece.condition_subj_moves, 0)
            mb1 == IF special_capture
                   THEN special_capture_step(id, pc, mdirs_cap[2], b,
                            special_capture_step(id, pc, mdirs_cap[1], b, seed))
                   ELSE seed
            mb2 == IF conditional_capture
                   THEN conditional_capture_step(id, pc, mdirs_cap[2], condition_adj[2],
                            b, tb, last, condition_self_y, condition_subj_moves,
                            conditional_capture_step(id, pc, mdirs_cap[1], condition_adj[1],
                                b, tb, last, condition_self_y, condition_subj_moves, mb1))
                   ELSE mb1
        IN  standard_moves(id, pc, piece.mdirs, 0, mdir_no, slide_no,
                           special_capture, b, mb2)

\* the double loop of gen_all_moves from square index k on (x-major order);
\* squares that hold no piece of the side leave the grid as it is, so the
\* loop goes from one piece of the side to the next
RECURSIVE gen_all_moves_from(_, _, _, _, _, _)
gen_all_moves_from(k, b, tb, last, gen_all_white, mb) ==
    LET todo == {n \in k .. (BOARD_SIZE[1] * BOARD_SIZE[2] - 1) :
                    LET id == b[n \div BOARD_SIZE[2]][n % BOARD_SIZE[2]]
                    IN  piece_white(id) = gen_all_white /\ id # 0}
    IN  IF todo = {} THEN mb
        ELSE
            LET n == CHOOSE n \in todo : \A m \in todo : n <= m
                x == n \div BOARD_SIZE[2]
                y == n % BOARD_SIZE[2]
                added == gen_moves(<<x, y>>, b, tb, mb, last)
            IN  strict(added, gen_all_moves_from(n + 1, b, tb, last, gen_all_white, added))

gen_all_moves(b, tb, last, gen_all_white) ==
    gen_all_moves_from(0, b, tb, last, gen_all_white, EmptyBoard)

\* gen_enemy_moves without the change of perspective
gen_enemy_moves_same_frame(b, tb, last, caller_white) ==
    gen_all_moves(b, tb, last, ~caller_white)

gen_enemy_moves(b, tb, last, caller_white) ==
    invert_board(gen_all_moves(invert_board(b), invert_board(tb),
                               flip_coordinates(last), ~caller_white))

----------------------------------------------------------------------------
(* Legality and check filter (piece.rs, mod moves)                          *)

\* the inner loop j of castle for direction i: the king's steps from step j on
RECURSIVE castle_walk(_, _, _, _, _, _, _, _, _)
castle_walk(pc, mc, i, j, current, king_mdir, move_coordinates_rook, enemy_moves_board, b) ==
    LET king_mdir_repeats == 2
        rook_coordinates == <<<<7, 0>>, <<0, 0>>>>
        move_coordinates_king == <<current[1] + king_mdir[1], current[2] + king_mdir[2]>>
    IN  IF j >= king_mdir_repeats THEN b
        ELSE IF \/ get_board(move_coordinates_king, b) # 0
                \/ get_board(move_coordinates_king, enemy_moves_board) # 0
             THEN b
        ELSE castle_walk(pc, mc, i, j + 1, move_coordinates_king, king_mdir,
                         move_coordinates_rook, enemy_moves_board,
                         IF move_coordinates_king = mc /\ j > 0
                         THEN move_board_value(rook_coordinates[i], move_coordinates_rook, 0,
                                  move_board_value(pc, move_coordinates_king, 0, b))
                         ELSE b)

\* one iteration i of the loop over the two castle directions
\* castle_direction taking a rook of either side
castle_direction_any_rook(pc, mc, i, tb, enemy_moves_board, b) ==
    LET pieces == instantiate_all
        king_mdirs == <<<<1, 0>>, <<-1, 0>>>>
        rook_mdirs == <<<<-2, 0>>, <<3, 0>>>>
        rook_coordinates == <<<<7, 0>>, <<0, 0>>>>
        move_coordinates_rook == <<rook_coordinates[i][1] + rook_mdirs[i][1],
                                   rook_coordinates[i][2] + rook_mdirs[i][2]>>
    IN  IF /\ abs(get_board(rook_coordinates[i], b)) = pieces[2].id
           /\ get_board(rook_coordinates[i], tb) = 0
        THEN castle_walk(pc, mc, i, 0, pc, king_mdirs[i], move_coordinates_rook,
                         enemy_moves_board, b)
        ELSE b

castle_direction(pc, mc, i, tb, enemy_moves_board, b) ==
    LET pieces == instantiate_all
        king_mdirs == <<<<1, 0>>, <<-1, 0>>>>
        rook_mdirs == <<<<-2, 0>>, <<3, 0>>>>
        rook_coordinates == <<<<7, 0>>, <<0, 0>>>>
        move_coordinates_rook == <<rook_coordinates[i][1] + rook_mdirs[i][1],
                                   rook_coordinates[i][2] + rook_mdirs[i][2]>>
    IN  IF /\ get_board(rook_coordinates[i], b) = pieces[2].id
           /\ get_board(rook_coordinates[i], tb) = 0
        THEN castle_walk(pc, mc, i, 0, pc, king_mdirs[i], move_coordinates_rook,
                         enemy_moves_board, b)
        ELSE b

\* castle without its test of the king's move count
castle_any_count(pc, mc, b, tb, enemy_moves_board) ==
    LET pieces == instantiate_all
        id == get_board(pc, b)
    IN  IF /\ id = pieces[6].id
           /\ get_board(pc, enemy_moves_board) = 0
        THEN castle_direction(pc, mc, 2, tb, enemy_moves_board,
                 castle_direction(pc, mc, 1, tb, enemy_moves_board, b))
        ELSE b

castle(pc, mc, b, tb, enemy_moves_board) ==
    LET pieces == instantiate_all
        id == get_board(pc, b)
    IN  IF /\ id = pieces[6].id
           /\ get_board(pc, tb) = 0
           /\ get_board(pc, enemy_moves_board) = 0
        THEN castle_direction(pc, mc, 2, tb, enemy_moves_board,
                 castle_direction(pc, mc, 1, tb, enemy_moves_board, b))
        ELSE b

\* the test king_check makes of the piece on a square marked 1: king_id is
\* the catalog id of the piece found there, and the statement `king_id * -1;`
\* of the source computes a value it drops
is_king_of(white, id) ==
    LET pieces == instantiate_all
        king_id == pieces[id].id
    IN  id = king_id

king_check(white, b, enemy_moves_board) ==
    \E x \in Xs, y \in Ys :
        /\ enemy_moves_board[x][y] = 1
        /\ abs(b[x][y]) # 0
        /\ is_king_of(white, abs(b[x][y]))

\* the board valid_move tries: the piece moved, nothing else (piece.rs line 711)
post_move_board(pc, mc, b) ==
    move_board_value(pc, mc, 0, b)

valid_move(pc, mc, b, tb, last) ==
    LET pieces == instantiate_all
        white == piece_white(get_board(pc, b))
        id == get_board(pc, b)
        castle_board ==
            IF id = pieces[6].id
            THEN castle(pc, mc, b, tb, gen_enemy_moves(b, tb, last, white))
            ELSE b
        possible_moves == gen_moves(pc, b, tb, EmptyBoard, last)
        moved == post_move_board(pc, mc, b)
        enemy_moves == gen_enemy_moves(moved, tb, last, white)
        check == king_check(white, moved, enemy_moves)
    IN  IF castle_board # b THEN castle_board
        ELSE IF get_board(mc, possible_moves) # 0 /\ ~check THEN moved
        ELSE b

----------------------------------------------------------------------------
(* Positions handed to the legality core.  The base positions are the      *)
(* boards of the tests of piece.rs; a position is a base position, at most *)
(* one further piece near its pieces, and at most one piece given a move   *)
(* count and made the piece moved last.                                    *)

MaxCount == 2

\* fen::decode, for a position given as <<x, y, id>> triples
decode(pieces_on) ==
    [x \in Xs |-> [y \in Ys |->
        IF \E p \in pieces_on : p[1] = x /\ p[2] = y
        THEN (CHOOSE p \in pieces_on : p[1] = x /\ p[2] = y)[3]
        ELSE 0]]

BasePositions ==
    { \* left_castle_test, block_castle_test: 8/8/8/8/8/8/8/R3K2R
      [pieces_on |-> {<<0, 0, 2>>, <<4, 0, 6>>, <<7, 0, 2>>},
       counts |-> {}, last |-> <<0, 0>>, window |-> <<4, 7, 0, 1>>],
      \* en_passant_test: 8/8/8/5pP1/8/8/8/8
      [pieces_on |-> {<<5, 4, -1>>, <<6, 4, 1>>},
       counts |-> {<<5, 4, 1>>, <<6, 4, 1>>}, last |-> <<5, 4>>, window |-> <<5, 7, 4, 5>>],
      \* queen_sliding_test: 8/2P5/8/P3p3/8/2Q5/8/8
      [pieces_on |-> {<<2, 6, 1>>, <<0, 4, 1>>, <<4, 4, -1>>, <<2, 2, 5>>},
       counts |-> {}, last |-> <<0, 0>>, window |-> <<2, 4, 2, 4>>],
      \* special_capture_test: 8/8/8/8/8/1pp5/2P5/8
      [pieces_on |-> {<<1, 2, -1>>, <<2, 2, -1>>, <<2, 1, 1>>},
       counts |-> {}, last |-> <<0, 0>>, window |-> <<1, 3, 1, 2>>],
      \* valid_move_test1: 8/8/6p1/3b4/8/8/6K1/1Q6
      [pieces_on |-> {<<6, 5, -1>>, <<3, 4, -4>>, <<6, 1, 6>>, <<1, 0, 5>>},
       counts |-> {}, last |-> <<0, 0>>, window |-> <<5, 7, 0, 2>>],
      \* valid_move_test6: 6K1/6p1/8/8/8/8/8/8
      [pieces_on |-> {<<6, 7, 6>>, <<6, 6, -1>>},
       counts |-> {}, last |-> <<0, 0>>, window |-> <<6, 7, 5, 7>>],
      \* Boards::custom("8/8/8/8/8/8/8/R2K3R", zero move-counts, [0, 0])
      [pieces_on |-> {<<0, 0, 2>>, <<3, 0, 6>>, <<7, 0, 2>>},
       counts |-> {}, last |-> <<0, 0>>, window |-> <<3, 5, 0, 1>>],
      \* Boards::custom("8/8/8/8/8/8/4K3/R7", zero move-counts, [0, 0])
      [pieces_on |-> {<<0, 0, 2>>, <<4, 1, 6>>},
       counts |-> {}, last |-> <<0, 0>>, window |-> <<5, 7, 0, 1>>],
      \* Boards::custom("r3k2r/8/8/8/8/8/8/8", zero move-counts, [0, 0])
      [pieces_on |-> {<<0, 7, -2>>, <<4, 7, -6>>, <<7, 7, -2>>},
       counts |-> {}, last |-> <<0, 0>>, window |-> <<5, 6, 7, 7>>] }

ExtraPieces == {-3, -2, -1, 1}

Window(base) ==
    {sq \in Squares : /\ base.window[1] <= sq[1] /\ sq[1] <= base.window[2]
                      /\ base.window[3] <= sq[2] /\ sq[2] <= base.window[4]}

Occupied(b) == {sq \in Squares : get_board(sq, b) # 0}

\* the position a base, an optional further piece and an optional touched
\* piece give: <<board, turns_board, last_turn_coordinates>>
BaseBoard(base) == decode(base.pieces_on)

BaseTurns(base) == decode(base.counts)

Positions ==
    UNION { UNION {
        LET b == IF extra = << >> THEN BaseBoard(base)
                 ELSE set_board(extra[1], extra[2], BaseBoard(base))
        IN  {<<b, BaseTurns(base), base.last>>}
            \cup {<<b, set_board(m, c, BaseTurns(base)), m>> :
                      m \in Occupied(b), c \in 1 .. MaxCount}
        : extra \in {<< >>} \cup
                    {<<sq, id>> : sq \in Window(base) \ Occupied(BaseBoard(base)),
                                  id \in ExtraPieces} }
      : base \in BasePositions }

\* the destinations requested for the piece on pc: every square its grid
\* marks, the squares two files to either side of it, and the two squares
\* straight ahead of it
Destinations(pc, b, tb, last) ==
    {sq \in Squares : get_board(sq, gen_moves(pc, b, tb, EmptyBoard, last)) # 0}
    \cup {sq \in Squares : sq[2] = pc[2] /\ abs(sq[1] - pc[1]) = 2}
    \cup {sq \in Squares : sq[1] = pc[1] /\ sq[2] - pc[2] \in {1, 2}}

NoSearch == [idle |-> TRUE]

Init ==
    /\ \E p \in Positions :
        /\ board = p[1]
        /\ turns_board = p[2]
        /\ last_turn_coordinates = p[3]
    /\ op = "position"
    /\ piece_coordinates = <<0, 0>>
    /\ move_coordinates = <<0, 0>>
    /\ moves_board = EmptyBoard
    /\ result_board = board
    /\ team_white = TRUE
    /\ ordered_moves = << >>
    /\ game = NoSearch
    /\ position = NoSearch
    /\ transposition_table = NoSearch
    /\ search = NoSearch

\* a call of gen_moves from an empty seed for the piece on pc
GenMoves(pc) ==
    /\ op = "position"
    /\ op' = "gen_moves"
    /\ piece_coordinates' = pc
    /\ moves_board' = gen_moves(pc, board, turns_board, EmptyBoard, last_turn_coordinates)
    /\ UNCHANGED <<board, turns_board, last_turn_coordinates, move_coordinates,
                   result_board, team_white, ordered_moves, searchVars>>

\* a call of valid_move
ValidMove(pc, mc) ==
    /\ op = "position"
    /\ op' = "valid_move"
    /\ piece_coordinates' = pc
    /\ move_coordinates' = mc
    /\ moves_board' = gen_moves(pc, board, turns_board, EmptyBoard, last_turn_coordinates)
    /\ result_board' = valid_move(pc, mc, board, turns_board, last_turn_coordinates)
    /\ UNCHANGED <<board, turns_board, last_turn_coordinates, team_white,
                   ordered_moves, searchVars>>

\* a call of gen_all_moves for one side
GenAllMoves(white) ==
    /\ op = "position"
    /\ op' = "gen_all_moves"
    /\ team_white' = white
    /\ moves_board' = gen_all_moves(board, turns_board, last_turn_coordinates, white)
    /\ UNCHANGED <<board, turns_board, last_turn_coordinates, piece_coordinates,
                   move_coordinates, result_board, ordered_moves, searchVars>>

\* a call of gen_enemy_moves by one side
GenEnemyMoves(white) ==
    /\ op = "position"
    /\ op' = "gen_enemy_moves"
    /\ team_white' = white
    /\ moves_board' = gen_enemy_moves(board, turns_board, last_turn_coordinates, white)
    /\ UNCHANGED <<board, turns_board, last_turn_coordinates, piece_coordinates,
                   move_coordinates, result_board, ordered_moves, searchVars>>

Next ==
    \/ /\ op = "position"
       /\ \E pc \in Occupied(board) : GenMoves(pc)
    \/ /\ op = "position"
       /\ \E pc \in Occupied(board) :
              \E mc \in Destinations(pc, board, turns_board, last_turn_coordinates) :
                  ValidMove(pc, mc)
    \/ /\ op = "position"
       /\ \E white \in BOOLEAN : GenAllMoves(white)
    \/ /\ op = "position"
       /\ \E white \in BOOLEAN : GenEnemyMoves(white)

Spec == Init /\ [][Next]_vars

----------------------------------------------------------------------------
(* Move ordering (algorithm.rs, order_moves)                                *)
(*                                                                          *)
(* order_moves is written against moves::gen_move_board and the BoardInfo   *)
(* forms of gen_enemy_moves and gen_all_moves, which are not in the source  *)
(* tree.  gen_move_board is modelled by valid_move: the board with the      *)
(* piece relocated when the move is accepted, the input board otherwise,    *)
(* with the move-count of the piece raised and the destination as the last  *)
(* turn.                                                                    *)

\* coordinates_from_usize of the loop counters, k counting the squares file
\* by file
SquareAt(k) == <<k \div BOARD_SIZE[2], k % BOARD_SIZE[2]>>

\* game_state.board_info.pieces[id.abs() - 1].value, 0 for an empty square
value_on(sq, b) ==
    IF get_board(sq, b) # 0 THEN instantiate_all[abs(get_board(sq, b))].value ELSE 0

\* the BoardInfo of a move whose board is moved
board_info_after(pc, mc, b, tb, last, moved) ==
    IF moved = b
    THEN [board |-> b, turns_board |-> tb, last_turn_coordinates |-> last]
    ELSE [board |-> moved,
          turns_board |-> set_board(mc, get_board(pc, tb) + 1, set_board(pc, 0, tb)),
          last_turn_coordinates |-> mc]

gen_move_board(pc, mc, b, tb, last) ==
    board_info_after(pc, mc, b, tb, last,
                     IF get_board(pc, b) = 0 THEN b ELSE valid_move(pc, mc, b, tb, last))

\* moves.sort_by(|a, b| b.value.cmp(&a.value)): descending, equal values in
\* the order they were pushed
RECURSIVE sort_by_value(_, _)
sort_by_value(moves, values) ==
    IF values = {}
    THEN << >>
    ELSE LET v == CHOOSE w \in values : \A u \in values : u <= w
             has_value(branch) == branch.value = v
         IN  SelectSeq(moves, has_value) \o sort_by_value(moves, values \ {v})

\* the value pushed for an accepted move (algorithm.rs lines 309-325):
\* move_points_change, which is move_value; enemy_capture_value is computed
\* and never used
pushed_value(pc, mc, whites_turn, b, move_board) ==
    LET enemy_moves_board == gen_enemy_moves(move_board.board, move_board.turns_board,
                                             move_board.last_turn_coordinates, whites_turn)
        moves_board_after == gen_all_moves(move_board.board, move_board.turns_board,
                                           move_board.last_turn_coordinates, whites_turn)
        move_points_change == value_on(mc, b)
        enemy_capture_value ==
            IF get_board(mc, enemy_moves_board) = 1 /\ get_board(mc, moves_board_after) = 0
            THEN 0 - value_on(pc, b)
            ELSE 0
    IN  move_points_change

\* the pair of the loop counters at the n-th pass of the innermost loop
pair_at(n) == <<SquareAt((n - 1) \div 64), SquareAt((n - 1) % 64)>>

\* the pass pushes a move: the piece is not of the wrong team and the move
\* board differs from the board
pushes(pc, mc, whites_turn, b, tb, last) ==
    /\ ~(whites_turn /\ get_board(pc, b) < 0)
    /\ ~(~whites_turn /\ get_board(pc, b) > 0)
    /\ gen_move_board(pc, mc, b, tb, last).board # b

pushed(pc, mc, whites_turn, b, tb, last) ==
    [piece_coordinates |-> pc, move_coordinates |-> mc,
     value |-> pushed_value(pc, mc, whites_turn, b, gen_move_board(pc, mc, b, tb, last))]

\* the values of a list of moves
values_of(moves) == {moves[i].value : i \in 1 .. Len(moves)}

sorted(moves) == sort_by_value(moves, values_of(moves))

pushed_all(kept, whites_turn, b, tb, last) ==
    [i \in 1 .. Len(kept) |->
        pushed(pair_at(kept[i])[1], pair_at(kept[i])[2], whites_turn, b, tb, last)]

order_moves(whites_turn, b, tb, last) ==
    LET pushing(n) == pushes(pair_at(n)[1], pair_at(n)[2], whites_turn, b, tb, last)
    IN  sorted(pushed_all(SelectSeq([n \in 1 .. 64 * 64 |-> n], pushing),
                          whites_turn, b, tb, last))

\* the positions order_moves is given: those of Positions in which no piece
\* was touched after the base position
OrderInit ==
    /\ Init
    /\ \E base \in BasePositions : turns_board = BaseTurns(base)

\* a call of order_moves for the side to move
OrderMoves(whites_turn) ==
    /\ op = "position"
    /\ op' = "order_moves"
    /\ team_white' = whites_turn
    /\ ordered_moves' = order_moves(whites_turn, board, turns_board, last_turn_coordinates)
    /\ UNCHANGED <<board, turns_board, last_turn_coordinates, piece_coordinates,
                   move_coordinates, moves_board, result_board, searchVars>>

OrderNext == \E whites_turn \in BOOLEAN : OrderMoves(whites_turn)

OrderSpec == OrderInit /\ [][OrderNext]_vars

----------------------------------------------------------------------------
(* Chess notions the claims are stated in.  The mover's own pawns advance  *)
(* towards larger y, so an opposing pawn captures towards smaller y.       *)

sign(n) == IF n > 0 THEN 1 ELSE IF n < 0 THEN -1 ELSE 0

\* the squares strictly between two squares of one rank, file or diagonal
Between(from, to) ==
    LET dx == to[1] - from[1]
        dy == to[2] - from[2]
        n == IF abs(dx) > abs(dy) THEN abs(dx) ELSE abs(dy)
    IN  {<<from[1] + k * sign(dx), from[2] + k * sign(dy)>> : k \in 1 .. (n - 1)}

\* the piece on `from` attacks the square `to` by the rules of chess
Attacks(b, from, to) ==
    LET kind == abs(get_board(from, b))
        dx == to[1] - from[1]
        dy == to[2] - from[2]
        straight == (dx = 0) # (dy = 0)
        diagonal == abs(dx) = abs(dy) /\ dx # 0
        clear == \A sq \in Between(from, to) : get_board(sq, b) = 0
    IN  CASE kind = 1 -> abs(dx) = 1 /\ dy = -1
          [] kind = 2 -> straight /\ clear
          [] kind = 3 -> {abs(dx), abs(dy)} = {1, 2}
          [] kind = 4 -> diagonal /\ clear
          [] kind = 5 -> (straight \/ diagonal) /\ clear
          [] kind = 6 -> abs(dx) <= 1 /\ abs(dy) <= 1 /\ from # to
          [] OTHER -> FALSE

\* some piece of the side opposing `white` attacks the square sq
Attacked(b, sq, white) ==
    \E from \in Squares :
        /\ get_board(from, b) # 0
        /\ piece_white(get_board(from, b)) # white
        /\ Attacks(b, from, sq)

KingOf(white) == IF white THEN IDS[6] ELSE 0 - IDS[6]

KingInCheck(b, white) ==
    \E sq \in Squares : get_board(sq, b) = KingOf(white) /\ Attacked(b, sq, white)

\* the request of the last call
Mover == get_board(piece_coordinates, board)

MoverWhite == piece_white(Mover)

\* what valid_move computes on the way for the request of the last call
CastleBoard ==
    IF Mover = IDS[6]
    THEN castle(piece_coordinates, move_coordinates, board, turns_board,
                gen_enemy_moves(board, turns_board, last_turn_coordinates, MoverWhite))
    ELSE board

PostMoveBoard == move_board_value(piece_coordinates, move_coordinates, 0, board)

PostEnemyMoves ==
    gen_enemy_moves(PostMoveBoard, turns_board, last_turn_coordinates, MoverWhite)

Castled == op = "valid_move" /\ CastleBoard # board

\* the mover's king stands on a square the opponent's grid marks 1
KingMarkedOne(b, enemy_moves_board, white) ==
    \E sq \in Squares :
        get_board(sq, enemy_moves_board) = 1 /\ get_board(sq, b) = KingOf(white)

----------------------------------------------------------------------------
(* Claims about the legality core                                           *)

\* C1: valid_move never returns a changed board in which the mover's own
\* king stands on a square an opposing piece attacks (a relocation that
\* leaves the king attacked is answered with the input board).
C1_NeverLeavesKingInCheck ==
    (op = "valid_move" /\ result_board # board)
        => ~KingInCheck(result_board, MoverWhite)

\* C2: a non-castling request whose destination the mover's grid marks
\* reachable (1 or 2) is answered with the relocated board whenever the
\* mover's king is on no square the opponent's post-move grid marks 1.
C2_AcceptsWhenKingNotMarked ==
    (/\ op = "valid_move"
     /\ ~Castled
     /\ get_board(move_coordinates, moves_board) \in {1, 2}
     /\ ~KingMarkedOne(PostMoveBoard, PostEnemyMoves, MoverWhite))
        => (result_board = PostMoveBoard /\ result_board # board)

\* C3: king_check(side, board, enemy_grid) is true exactly when some square
\* the enemy grid marks 1 holds that side's king (here for the call
\* valid_move makes on the post-move board).
C3_KingCheckIffKingMarked ==
    (/\ op = "valid_move"
     /\ ~Castled
     /\ get_board(move_coordinates, moves_board) # 0)
        => (king_check(MoverWhite, PostMoveBoard, PostEnemyMoves)
              <=> KingMarkedOne(PostMoveBoard, PostEnemyMoves, MoverWhite))

\* C7: valid_move castles only when the destination is exactly two squares
\* from the king towards the rook and neither square of that path is
\* occupied or attacked by an opposing piece.
C7_CastlesOnlyOverFreePath ==
    (Castled /\ result_board = CastleBoard)
        => \E dir \in {1, -1} :
              /\ move_coordinates = <<piece_coordinates[1] + 2 * dir, piece_coordinates[2]>>
              /\ \A k \in {1, 2} :
                    LET sq == <<piece_coordinates[1] + k * dir, piece_coordinates[2]>>
                    IN  /\ get_board(sq, board) = 0
                        /\ ~Attacked(board, sq, MoverWhite)

\* the en-passant conditions of C8 for the pawn on pc capturing to side dx
EnPassantConditions(pc, dx) ==
    LET adjacent == <<pc[1] + dx, pc[2]>>
        landing == <<pc[1] + dx, pc[2] + 1>>
    IN  /\ abs(get_board(pc, board)) = IDS[1]
        /\ fits_in_board(adjacent) /\ fits_in_board(landing)
        /\ adjacent = last_turn_coordinates
        /\ get_board(adjacent, board) # 0
        /\ piece_white(get_board(adjacent, board)) # piece_white(get_board(pc, board))
        /\ get_board(adjacent, turns_board) = 1
        /\ pc[2] = 4
        /\ get_board(landing, board) = 0

EnPassantMarked(pc, dx) ==
    LET adjacent == <<pc[1] + dx, pc[2]>>
        landing == <<pc[1] + dx, pc[2] + 1>>
    IN  /\ fits_in_board(adjacent) /\ fits_in_board(landing)
        /\ get_board(landing, moves_board) = 1
        /\ get_board(adjacent, moves_board) = -1

\* C8: gen_moves from an empty seed marks the landing square 1 and the
\* adjacent victim square -1 exactly when all the en-passant conditions
\* hold together, and when they hold on neither side no square is marked -1.
C8_EnPassantIffAllConditions ==
    op = "gen_moves" =>
        /\ \A dx \in {1, -1} :
              EnPassantMarked(piece_coordinates, dx)
                  <=> EnPassantConditions(piece_coordinates, dx)
        /\ (\A dx \in {1, -1} : ~EnPassantConditions(piece_coordinates, dx))
              => \A sq \in Squares : get_board(sq, moves_board) # -1

\* C8 witness: a pawn for which the conditions hold, and its grid
C8_Witness ==
    /\ op = "gen_moves"
    /\ \E dx \in {1, -1} :
          EnPassantConditions(piece_coordinates, dx) /\ EnPassantMarked(piece_coordinates, dx)

\* C9: the grid gen_moves returns from an empty seed has marker 0 on every
\* square that holds a piece of the moving piece's side.
C9_FriendlySquaresUnmarked ==
    op = "gen_moves" =>
        \A sq \in Squares :
            (/\ get_board(sq, board) # 0
             /\ piece_white(get_board(sq, board)) = MoverWhite)
                => get_board(sq, moves_board) = 0

\* C9 witness: a queen whose slide up its file is marked up to the square
\* before a piece of its own side
C9_Witness ==
    /\ op = "gen_moves"
    /\ Mover = IDS[5]
    /\ \E sq \in Squares :
          /\ sq[1] = piece_coordinates[1] /\ sq[2] > piece_coordinates[2] + 1
          /\ get_board(sq, board) > 0
          /\ get_board(<<sq[1], sq[2] - 1>>, moves_board) = 1

\* the squares of the ray from pc in direction mdir, nearest first
Ray(pc, mdir) ==
    [k \in 1 .. 7 |-> <<pc[1] + k * mdir[1], pc[2] + k * mdir[2]>>]

\* C10: along each direction of a sliding piece (rook, bishop, queen) no
\* square beyond the first occupied square is marked, an enemy on that
\* square is marked and a friend is not; a knight or a king marks only
\* squares one of its offsets away from the origin.
C10_SlidersStopNonSlidersStep ==
    op = "gen_moves" =>
        LET piece == instantiate_all[abs(Mover)]
            dirs == {piece.mdirs[i] : i \in 1 .. piece.mdir_no}
        IN  /\ abs(Mover) \in {IDS[2], IDS[4], IDS[5]} =>
                \A mdir \in dirs : \A k \in 1 .. 7 :
                    LET sq == Ray(piece_coordinates, mdir)[k]
                    IN  (/\ fits_in_board(sq)
                         /\ get_board(sq, board) # 0
                         /\ \A j \in 1 .. (k - 1) :
                               get_board(Ray(piece_coordinates, mdir)[j], board) = 0)
                        => /\ \A j \in (k + 1) .. 7 :
                                 fits_in_board(Ray(piece_coordinates, mdir)[j])
                                     => get_board(Ray(piece_coordinates, mdir)[j], moves_board) = 0
                           /\ (get_board(sq, moves_board) # 0)
                                 <=> (piece_white(get_board(sq, board)) # MoverWhite)
            /\ abs(Mover) \in {IDS[3], IDS[6]} =>
                \A sq \in Squares :
                    get_board(sq, moves_board) # 0
                        => \E mdir \in dirs :
                              sq = <<piece_coordinates[1] + mdir[1], piece_coordinates[2] + mdir[2]>>

----------------------------------------------------------------------------
(* Search engine (algorithm.rs, mod minimax)                                *)
(*                                                                          *)
(* The turn application (board::turn::new_turn), its error codes and the    *)
(* position hash are not in the source tree.  They are modelled at their    *)
(* boundary: a game is a list of moves, each of one side, from one square   *)
(* to another, with the material it wins and the moves that must have been  *)
(* made before it becomes possible (a recapture needs the capture); a move  *)
(* is made at most once.  A position is the set of moves made and the side  *)
(* to move, so the material won along a path depends on the position only   *)
(* and two orders of the same moves meet in one position.                   *)

MaxDepth == 4

MaxPlies == 2

CHECKMATE_ERROR == "checkmate"

STALEMATE_ERROR == "stalemate"

INVALID_MOVE_ERROR == "invalid move"

\* origin and destination of the moves of the first side and of the second
WhiteMoves == << <<<<0, 0>>, <<0, 1>>>>, <<<<0, 0>>, <<0, 2>>>>, <<<<1, 0>>, <<2, 2>>>> >>

BlackMoves == << <<<<0, 7>>, <<0, 6>>>>, <<<<0, 7>>, <<0, 5>>>>, <<<<1, 7>>, <<2, 5>>>> >>

MoveIds == 1 .. (Len(WhiteMoves) + Len(BlackMoves))

MoveWhite(t) == t <= Len(WhiteMoves)

MovePair(t) == IF MoveWhite(t) THEN WhiteMoves[t] ELSE BlackMoves[t - Len(WhiteMoves)]

\* material a move can win: nothing, a pawn, a knight or bishop, a rook
WhiteDeltas == {<<a, b, 0>> : a \in {pawn.value, rook.value}, b \in {pawn.value, knight.value}}

BlackDeltas == {<<0, a, b>> : a \in {0, pawn.value}, b \in {0, pawn.value}}

\* which moves a move needs first: none; the third black move answers the
\* first white move; and, with that, the second white move answers the
\* second black move
NoNeeds == [t \in MoveIds |-> {}]

NeedsPatterns ==
    { NoNeeds,
      [NoNeeds EXCEPT ![6] = {1}],
      [NoNeeds EXCEPT ![6] = {1}, ![2] = {5}] }

\* what the turn application answers in a position without a move: a
\* stalemate, a checkmate, or for each pair that it is an invalid move
Endings == {STALEMATE_ERROR, CHECKMATE_ERROR, INVALID_MOVE_ERROR}

\* the value a terminal signal carries, seen from the side to move
EndingValue(error_code) == IF error_code = CHECKMATE_ERROR THEN -127 ELSE 0

\* the values a game may give its terminal signal: a stalemate may be scored
\* as a draw or slightly against the side that cannot move
EndingValues(error_code) == {EndingValue(error_code)} \cup (IF error_code = STALEMATE_ERROR THEN {-2} ELSE {})

\* games in which a side runs out of moves: the first side at the start, or
\* after its first move unless the second side answers with its second
\* move; the second side unless the first side opens with its second move
StuckPatterns ==
    { [NoNeeds EXCEPT ![1] = {4}, ![2] = {4}, ![3] = {4}],
      [NoNeeds EXCEPT ![2] = {5}, ![3] = {5}],
      [NoNeeds EXCEPT ![4] = {2}, ![5] = {2}, ![6] = {2}] }

Games ==
    { [points_delta |-> w \o b, needs |-> n, ending |-> STALEMATE_ERROR,
       ending_value |-> EndingValue(STALEMATE_ERROR)] :
          w \in WhiteDeltas, b \in BlackDeltas, n \in NeedsPatterns }
    \cup
    UNION { { [points_delta |-> w \o <<0, 0, 0>>, needs |-> n, ending |-> e,
               ending_value |-> v] :
                  w \in WhiteDeltas, n \in StuckPatterns, v \in EndingValues(e) } :
            e \in Endings }

\* GameState: the moves made and the side to move
StartPosition == [played |-> {}, whites_turn |-> TRUE]

Applicable(game_state) ==
    {t \in MoveIds :
        /\ MoveWhite(t) = game_state.whites_turn
        /\ t \notin game_state.played
        /\ game.needs[t] \subseteq game_state.played}

\* board::turn::new_turn: the continuing game with its points_delta, or an
\* error with its code and value
new_turn(pc, mc, promotion_id, game_state) ==
    LET applicable == Applicable(game_state)
        made == {t \in applicable : MovePair(t) = <<pc, mc>>}
    IN  IF applicable = {}
        THEN [ok |-> FALSE, error_code |-> game.ending, value |-> game.ending_value]
        ELSE IF made = {}
        THEN [ok |-> FALSE, error_code |-> INVALID_MOVE_ERROR, value |-> 0]
        ELSE LET t == CHOOSE t \in made : TRUE
             IN  [ok |-> TRUE,
                  game_state |-> [played |-> game_state.played \cup {t},
                                  whites_turn |-> ~game_state.whites_turn],
                  points_delta |-> game.points_delta[t]]

\* gen_zobrist_board_hash: side to move and board contents, without collisions
gen_zobrist_board_hash(whites_turn, played) == <<whites_turn, played>>

\* the pairs the scan of best_move meets that the turn application does not
\* reject in every continuing position, with the first pair of the scan and
\* the first pair after it, in the order of the four nested loops
ScanKey(pair) == ((pair[1][1] * BOARD_SIZE[2] + pair[1][2]) * BOARD_SIZE[1] + pair[2][1]) * BOARD_SIZE[2] + pair[2][2]

ScanPairs ==
    {MovePair(t) : t \in MoveIds} \cup {<<<<0, 0>>, <<0, 0>>>>, <<<<0, 0>>, <<1, 0>>>>}

RECURSIVE InScanOrder(_)
InScanOrder(pairs) ==
    IF pairs = {}
    THEN << >>
    ELSE LET first == CHOOSE p \in pairs : \A q \in pairs : ScanKey(p) <= ScanKey(q)
         IN  <<first>> \o InScanOrder(pairs \ {first})

ScanOrder == InScanOrder(ScanPairs)

BranchValue(pc, mc, v) == [piece_coordinates |-> pc, move_coordinates |-> mc, value |-> v]

BranchValue_new == BranchValue(<<0, 0>>, <<0, 0>>, 0)

TranspositionInfo(max, min, search_depth, current_depth) ==
    [max |-> max, min |-> min, search_depth |-> search_depth, current_depth |-> current_depth]

\* HashMap::insert
insert(table, key, info) ==
    [k \in DOMAIN table \cup {key} |-> IF k = key THEN info ELSE table[k]]

\* the program: probes and stores of the table and the cut-off both active
Program == [table |-> TRUE, cutoff |-> TRUE]

\* the pair of the seed and what the break on it leaves out of the scan: the
\* rest of the innermost loop
skipped(node, pc, mc) ==
    /\ node.use_deepening_val
    /\ pc = node.deepening_val.piece_coordinates
    /\ mc[1] = node.deepening_val.move_coordinates[1]
    /\ mc[2] >= node.deepening_val.move_coordinates[2]

\* the larger of two nesting depths
deeper(m, n) == IF m < n THEN n ELSE m

\* the history of a node with one more pair given to new_turn
attempt(acc, pc, mc) == [acc EXCEPT !.tried = @ \cup {<<pc, mc>>}]

\* the update of max, min and min_max_val with a child's value
update(node, acc, pc, mc, child) ==
    LET v == BranchValue(pc, mc, child.result.value)
    IN  IF acc.init_min_max
        THEN [acc EXCEPT !.max = v, !.min = v, !.init_min_max = FALSE,
                         !.min_max_val = <<v.value>>, !.table = child.table,
                         !.nesting = deeper(@, 1 + child.nesting)]
        ELSE IF v.value > acc.max.value
        THEN [acc EXCEPT !.max = v, !.table = child.table,
                         !.min_max_val = IF node.master_team THEN <<v.value>> ELSE @,
                         !.nesting = deeper(@, 1 + child.nesting)]
        ELSE IF v.value < acc.min.value
        THEN [acc EXCEPT !.min = v, !.table = child.table,
                         !.min_max_val = IF node.master_team THEN @ ELSE <<v.value>>,
                         !.nesting = deeper(@, 1 + child.nesting)]
        ELSE [acc EXCEPT !.table = child.table,
                         !.nesting = deeper(@, 1 + child.nesting)]

\* the test that ends the scan of a node with an inherited bound
cut_off(node, acc) ==
    /\ node.use_parent_value
    /\ IF node.master_team
       THEN acc.max.value > node.parent_value
       ELSE acc.min.value < node.parent_value

RECURSIVE best_move(_, _, _, _, _, _, _, _)
RECURSIVE scan(_, _, _)

\* terminal_leaf with the signalled value added to the accumulated value
terminal_leaf_accumulated(node, pc, mc, error_value) ==
    BranchValue(pc, mc, node.init_val + (IF node.master_team THEN error_value
                                                             ELSE 0 - error_value))

\* the leaf returned for a checkmate or stalemate signal (algorithm.rs
\* lines 168-178)
terminal_leaf(node, pc, mc, error_value) ==
    BranchValue(pc, mc, IF node.master_team THEN error_value ELSE 0 - error_value)

\* the end of one iteration that explored a child: the cut-off, or the
\* next pair
next_pair(i, node, updated) ==
    IF node.engine.cutoff /\ cut_off(node, updated)
    THEN [terminal |-> FALSE, acc |-> updated]
    ELSE scan(i + 1, node, updated)

\* the four nested loops from their i-th pair on.  Beside max, min and the
\* table, the accumulator records the history of the node: the pairs given
\* to new_turn (tried) and the deepest nesting of the calls made (nesting)
scan(i, node, acc) ==
    IF i > Len(ScanOrder)
    THEN [terminal |-> FALSE, acc |-> acc]
    ELSE LET pc == ScanOrder[i][1]
             mc == ScanOrder[i][2]
         IN  IF skipped(node, pc, mc)
             THEN scan(i + 1, node, acc)
             ELSE LET game_state_new == new_turn(pc, mc, IDS[5], node.game_state)
                  IN  IF ~game_state_new.ok
                      THEN IF game_state_new.error_code \in {CHECKMATE_ERROR, STALEMATE_ERROR}
                           THEN [terminal |-> TRUE,
                                 result |-> terminal_leaf(node, pc, mc, game_state_new.value),
                                 acc |-> attempt(acc, pc, mc)]
                           ELSE scan(i + 1, node, attempt(acc, pc, mc))
                      ELSE LET move_val == IF node.master_team
                                           THEN game_state_new.points_delta
                                           ELSE 0 - game_state_new.points_delta
                               branch_val == node.init_val + move_val
                           IN  next_pair(i, node,
                                   update(node, attempt(acc, pc, mc), pc, mc,
                                          best_move(~node.master_team, branch_val,
                                                    node.search_depth, node.current_depth + 1,
                                                    acc.min_max_val, node.engine, acc.table,
                                                    game_state_new.game_state)))

\* max, min and the flags before the seed, on a given table
fresh(table) ==
    [max |-> BranchValue_new, min |-> BranchValue_new, init_min_max |-> TRUE,
     min_max_val |-> << >>, table |-> table,
     deepening_val |-> BranchValue_new, use_deepening_val |-> FALSE, nesting |-> 0]

\* max and min seeded with the value of the child the seed's move leads to
seeded_with(seed, child) ==
    LET v == BranchValue(seed.result.piece_coordinates, seed.result.move_coordinates,
                         child.result.value)
    IN  [max |-> v, min |-> v, init_min_max |-> FALSE,
         min_max_val |-> <<v.value>>, table |-> child.table,
         deepening_val |-> seed.result, use_deepening_val |-> TRUE,
         nesting |-> deeper(1 + seed.nesting, 1 + child.nesting)]

\* what the node does with the result of the search one ply less deep
seeded_by(node, seed) ==
    LET deepening_val == seed.result
        game_state_new == new_turn(deepening_val.piece_coordinates,
                                   deepening_val.move_coordinates, IDS[5],
                                   node.game_state)
    IN  IF game_state_new.ok
        THEN seeded_with(seed,
                 best_move(~node.master_team, game_state_new.points_delta,
                           node.search_depth, node.current_depth + 1,
                           << >>, node.engine, seed.table,
                           game_state_new.game_state))
        ELSE [fresh(seed.table) EXCEPT !.deepening_val = deepening_val,
                                       !.use_deepening_val = TRUE,
                                       !.nesting = 1 + seed.nesting]

\* the seed of max and min with the best move of the search one ply less deep
deepening(node, table) ==
    IF node.current_depth = 0 /\ node.search_depth > 1
    THEN seeded_by(node,
             best_move(node.master_team, node.init_val, node.search_depth - 1,
                       node.current_depth, node.parent, node.engine, table,
                       node.game_state))
    ELSE fresh(table)

\* the scan of a node after its seed
scan_seeded(node0, seeded) ==
    scan(1, [use_deepening_val |-> seeded.use_deepening_val,
             deepening_val |-> seeded.deepening_val] @@ node0,
         [max |-> seeded.max, min |-> seeded.min,
          init_min_max |-> seeded.init_min_max,
          min_max_val |-> seeded.min_max_val,
          table |-> seeded.table,
          tried |-> {}, nesting |-> seeded.nesting])

\* the end of a node: the return of a terminal signal, or the store of max
\* and min and the return of the side's one
\* finish storing a record only when the scan applied a pair
finish_storing_applied(master_team, search_depth, current_depth, engine, board_hash, scanned) ==
    IF scanned.terminal
    THEN [result |-> scanned.result, table |-> scanned.acc.table,
          tried |-> scanned.acc.tried, nesting |-> scanned.acc.nesting]
    ELSE [result |-> IF master_team THEN scanned.acc.max ELSE scanned.acc.min,
          table |-> IF engine.table /\ ~scanned.acc.init_min_max
                    THEN insert(scanned.acc.table, board_hash,
                                TranspositionInfo(scanned.acc.max, scanned.acc.min,
                                                  search_depth, current_depth))
                    ELSE scanned.acc.table,
          tried |-> scanned.acc.tried, nesting |-> scanned.acc.nesting]

finish(master_team, search_depth, current_depth, engine, board_hash, scanned) ==
    IF scanned.terminal
    THEN [result |-> scanned.result, table |-> scanned.acc.table,
          tried |-> scanned.acc.tried, nesting |-> scanned.acc.nesting]
    ELSE [result |-> IF master_team THEN scanned.acc.max ELSE scanned.acc.min,
          table |-> IF engine.table
                    THEN insert(scanned.acc.table, board_hash,
                                TranspositionInfo(scanned.acc.max, scanned.acc.min,
                                                  search_depth, current_depth))
                    ELSE scanned.acc.table,
          tried |-> scanned.acc.tried, nesting |-> scanned.acc.nesting]

\* reached_last_branch one ply past the budget
reached_last_branch_one_past(search_depth, current_depth) ==
    current_depth = search_depth + 1

\* the test that stops the descent (algorithm.rs line 50)
reached_last_branch(search_depth, current_depth) ==
    current_depth = search_depth

\* last_branch returning the value of an empty branch
last_branch_zero(init_val, table) ==
    [result |-> BranchValue_new, table |-> table, tried |-> {}, nesting |-> 0]

\* the return at the last branch (algorithm.rs lines 49-56): no pair, the
\* accumulated value, the table as it was
last_branch(init_val, table) ==
    [result |-> BranchValue(<<0, 0>>, <<0, 0>>, init_val), table |-> table,
     tried |-> {}, nesting |-> 0]

best_move(master_team, init_val, search_depth, current_depth, parent_value, engine, table, game_state) ==
    IF reached_last_branch(search_depth, current_depth)
    THEN last_branch(init_val, table)
    ELSE LET board_hash == gen_zobrist_board_hash(game_state.whites_turn, game_state.played)
             hit == /\ engine.table
                    /\ board_hash \in DOMAIN table
                    /\ table[board_hash].search_depth >= search_depth
                    /\ table[board_hash].current_depth >= current_depth
         IN  IF hit
             THEN [result |-> IF master_team THEN table[board_hash].max
                                             ELSE table[board_hash].min,
                   table |-> table, tried |-> {}, nesting |-> 0]
             ELSE LET node0 == [master_team |-> master_team, init_val |-> init_val,
                                search_depth |-> search_depth,
                                current_depth |-> current_depth,
                                parent |-> parent_value,
                                use_parent_value |-> parent_value # << >>,
                                parent_value |-> unwrap_def(parent_value, 0),
                                engine |-> engine, game_state |-> game_state]
                  IN  finish(master_team, search_depth, current_depth, engine, board_hash,
                             scan_seeded(node0, deepening(node0, table)))

----------------------------------------------------------------------------
(* Searches of a game: the engine plays the first side                      *)

EmptyTable == [k \in {} |-> BranchValue_new]

SearchInit ==
    /\ game \in Games
    /\ position = StartPosition
    /\ transposition_table = EmptyTable
    /\ search = NoSearch
    /\ board = EmptyBoard
    /\ turns_board = EmptyBoard
    /\ last_turn_coordinates = <<0, 0>>
    /\ op = "search"
    /\ piece_coordinates = <<0, 0>>
    /\ move_coordinates = <<0, 0>>
    /\ moves_board = EmptyBoard
    /\ result_board = EmptyBoard
    /\ team_white = TRUE
    /\ ordered_moves = << >>

\* a top-level call of best_move for the side to move, on the table as the
\* earlier calls left it
Search(search_depth) ==
    /\ search.idle
    /\ position.whites_turn
    /\ LET found == best_move(TRUE, 0, search_depth, 0, << >>, Program,
                              transposition_table, position)
       IN  /\ search' = [idle |-> FALSE, master_team |-> TRUE, init_val |-> 0,
                         search_depth |-> search_depth, current_depth |-> 0,
                         parent_value |-> << >>,
                         table |-> transposition_table, result |-> found.result,
                         tried |-> found.tried, nesting |-> found.nesting]
           /\ transposition_table' = found.table
    /\ UNCHANGED <<game, position, pieceVars>>

\* the engine makes the move it found
PlayResult ==
    /\ ~search.idle
    /\ Cardinality(position.played) < MaxPlies
    /\ LET game_state_new == new_turn(search.result.piece_coordinates,
                                      search.result.move_coordinates, IDS[5], position)
       IN  /\ game_state_new.ok
           /\ position' = game_state_new.game_state
    /\ search' = NoSearch
    /\ UNCHANGED <<game, transposition_table, pieceVars>>

\* the opponent answers
Reply(pc, mc) ==
    /\ search.idle
    /\ ~position.whites_turn
    /\ Cardinality(position.played) < MaxPlies
    /\ LET game_state_new == new_turn(pc, mc, IDS[5], position)
       IN  /\ game_state_new.ok
           /\ position' = game_state_new.game_state
    /\ UNCHANGED <<game, transposition_table, search, pieceVars>>

SearchNext ==
    \/ \E search_depth \in 1 .. MaxDepth : Search(search_depth)
    \/ PlayResult
    \/ \E pair \in ScanPairs : Reply(pair[1], pair[2])

SearchSpec == SearchInit /\ [][SearchNext]_vars

\* accumulated values and inherited bounds handed to a call below the root
NodeValues == {-1, 0, 3}

NodeBounds == {<< >>, <<1>>}

\* a call of best_move for the current position as a node of a search that
\* started current_depth plies earlier with the first side to move, on the
\* table as the earlier calls left it
NodeCall(init_val, search_depth, current_depth, parent_value) ==
    /\ op = "search"
    /\ search.idle
    /\ current_depth <= Cardinality(position.played)
    /\ position.whites_turn = (current_depth % 2 = 0)
    /\ LET found == best_move(position.whites_turn, init_val, search_depth, current_depth,
                              parent_value, Program, transposition_table, position)
       IN  /\ search' = [idle |-> FALSE, master_team |-> position.whites_turn,
                         init_val |-> init_val,
                         search_depth |-> search_depth, current_depth |-> current_depth,
                         parent_value |-> parent_value,
                         table |-> transposition_table, result |-> found.result,
                         tried |-> found.tried, nesting |-> found.nesting]
           /\ transposition_table' = found.table
    /\ op' = "node"
    /\ UNCHANGED <<game, position, board, turns_board, last_turn_coordinates,
                   piece_coordinates, move_coordinates, moves_board, result_board,
                   team_white, ordered_moves>>

NodeNext ==
    \/ /\ op = "search"
       /\ SearchNext
    \/ \E init_val \in NodeValues, parent_value \in NodeBounds :
          \E search_depth \in 1 .. MaxDepth, current_depth \in 1 .. MaxDepth :
              /\ current_depth <= search_depth
              /\ NodeCall(init_val, search_depth, current_depth, parent_value)

NodeSpec == SearchInit /\ [][NodeNext]_vars

----------------------------------------------------------------------------
(* Claims about the search engine                                           *)

\* the position after one of its applicable moves
After(t, game_state) ==
    [played |-> game_state.played \cup {t}, whites_turn |-> ~game_state.whites_turn]

\* no position within plies moves of game_state is without an applicable
\* move: the turn application signals no checkmate and no stalemate there
RECURSIVE Continuing(_, _)
Continuing(plies, game_state) ==
    \/ plies = 0
    \/ /\ Applicable(game_state) # {}
       /\ \A t \in Applicable(game_state) : Continuing(plies - 1, After(t, game_state))

Largest(values) == CHOOSE v \in values : \A w \in values : w <= v

Smallest(values) == CHOOSE v \in values : \A w \in values : v <= w

\* the minimax value of the game tree cut plies moves below game_state: a
\* leaf is worth the material accumulated for the master side
RECURSIVE Minimax(_, _, _, _)
Minimax(master_team, value, plies, game_state) ==
    IF plies = 0
    THEN value
    ELSE LET children ==
                 {Minimax(~master_team,
                          value + (IF master_team THEN game.points_delta[t]
                                                  ELSE 0 - game.points_delta[t]),
                          plies - 1, After(t, game_state)) : t \in Applicable(game_state)}
         IN  IF master_team THEN Largest(children) ELSE Smallest(children)

\* a search has returned, for a tree without terminal signals
Searched == ~search.idle /\ Continuing(search.search_depth, position)

\* C4: a search from ply 0 with an empty table and no inherited bound returns
\* the minimax value of the tree cut at its depth budget, and a root move
\* that achieves it.
C4_ReturnsMinimaxValue ==
    (Searched /\ search.table = EmptyTable)
        => /\ search.result.value = Minimax(TRUE, 0, search.search_depth, position)
           /\ \E t \in Applicable(position) :
                 /\ MovePair(t) = <<search.result.piece_coordinates,
                                    search.result.move_coordinates>>
                 /\ Minimax(FALSE, game.points_delta[t], search.search_depth - 1,
                            After(t, position)) = search.result.value

\* C5: the value a search returns with the probes and stores of the table
\* active is the value the same search returns with the table never hit,
\* from an empty table and from the table earlier searches of the game left.
C5_TableChangesNoValue ==
    Searched
        => search.result.value
             = best_move(TRUE, 0, search.search_depth, 0, << >>,
                         [Program EXCEPT !.table = FALSE], EmptyTable,
                         position).result.value

\* C6: the value the root call returns with the cut-off active is the value
\* the same search returns with the cut-off removed.
C6_CutOffChangesNoValue ==
    Searched
        => search.result.value
             = best_move(TRUE, 0, search.search_depth, 0, << >>,
                         [Program EXCEPT !.cutoff = FALSE], search.table,
                         position).result.value

\* a search has returned at a position in which the side to move has no
\* move and the turn application signals stalemate
StalemateAtRoot ==
    ~search.idle /\ Applicable(position) = {} /\ game.ending = STALEMATE_ERROR

C12_DepthOneTakesLargestDelta ==
    (~search.idle /\ search.search_depth = 1 /\ Applicable(position) # {})
        => \E t \in Applicable(position) :
              /\ MovePair(t) = <<search.result.piece_coordinates,
                                 search.result.move_coordinates>>
              /\ search.result.value = game.points_delta[t]
              /\ \A u \in Applicable(position) :
                    game.points_delta[u] <= game.points_delta[t]

----------------------------------------------------------------------------
(* Further claims about the legality core                                   *)

\* the squares on which two boards differ
Changed(b1, b2) == {sq \in Squares : get_board(sq, b1) # get_board(sq, b2)}

\* result_board is board with the king on the origin moved to the
\* destination and one rook of its side moved to another square, and
\* nothing else changed
KingAndRookRelocated ==
    /\ abs(Mover) = IDS[6]
    /\ \E from, to \in Squares \ {move_coordinates} :
          /\ abs(get_board(from, board)) = IDS[2]
          /\ piece_white(get_board(from, board)) = MoverWhite
          /\ to # from
          /\ result_board
                = set_board(to, get_board(from, board),
                      set_board(move_coordinates, Mover,
                          set_board(from, 0, set_board(piece_coordinates, 0, board))))

\* C13: the board valid_move returns is the input board, or the input board
\* with the origin emptied and the moved piece on the destination and no
\* other square changed (an en-passant victim stays), or the input board
\* with only the king and one rook relocated.
C13_ResultIsInputRelocationOrCastle ==
    op = "valid_move"
        => \/ result_board = board
           \/ /\ result_board = PostMoveBoard
              /\ Changed(board, result_board) \subseteq {piece_coordinates, move_coordinates}
              /\ get_board(piece_coordinates, result_board) = 0
              /\ get_board(move_coordinates, result_board) = Mover
           \/ KingAndRookRelocated


\* the squares of the ray from pc in direction mdir that a slide without a
\* cap passes over: on the board, empty, with only empty squares before
OpenRay(pc, mdir) ==
    {Ray(pc, mdir)[k] : k \in {k \in 1 .. 7 :
        \A j \in 1 .. k : /\ fits_in_board(Ray(pc, mdir)[j])
                          /\ get_board(Ray(pc, mdir)[j], board) = 0}}

\* C14: a rook, bishop or queen marks every empty square along each of its
\* directions up to the first occupied square or the board edge, whatever
\* its move-count.
C14_SlidersSlideAtAnyMoveCount ==
    (op = "gen_moves" /\ abs(Mover) \in {IDS[2], IDS[4], IDS[5]})
        => LET piece == instantiate_all[abs(Mover)]
           IN  \A i \in 1 .. piece.mdir_no :
                   \A sq \in OpenRay(piece_coordinates, piece.mdirs[i]) :
                       get_board(sq, moves_board) # 0

\* the diagonal capture square of the pawn on pc to side dx
Diagonal(pc, dx) == <<pc[1] + dx, pc[2] + 1>>

\* C15: gen_moves marks each on-board diagonal capture square of a pawn that
\* holds an enemy piece with the value 1 and marks no diagonal capture
\* square that holds a friendly piece; an empty diagonal capture square is
\* marked exactly when the en-passant conditions hold on its side.
C15_DiagonalCapturesMarkedOne ==
    (op = "gen_moves" /\ abs(Mover) = IDS[1])
        => \A dx \in {1, -1} :
              LET sq == Diagonal(piece_coordinates, dx)
              IN  fits_in_board(sq)
                  => /\ (get_board(sq, board) # 0 /\ piece_white(get_board(sq, board)) # MoverWhite)
                            => get_board(sq, moves_board) = 1
                     /\ (get_board(sq, board) # 0 /\ piece_white(get_board(sq, board)) = MoverWhite)
                            => get_board(sq, moves_board) = 0
                     /\ get_board(sq, board) = 0
                            => ((get_board(sq, moves_board) # 0)
                                   <=> EnPassantConditions(piece_coordinates, dx))

\* C15 witness: a pawn with an enemy on one diagonal capture square, marked,
\* and a friend on the other
C15_Witness ==
    /\ op = "gen_moves" /\ abs(Mover) = IDS[1]
    /\ \E dx \in {1, -1} :
          LET enemy == Diagonal(piece_coordinates, dx)
              friend == Diagonal(piece_coordinates, 0 - dx)
          IN  /\ fits_in_board(enemy) /\ fits_in_board(friend)
              /\ get_board(enemy, board) # 0
              /\ piece_white(get_board(enemy, board)) # MoverWhite
              /\ get_board(enemy, moves_board) # 0
              /\ get_board(friend, board) # 0
              /\ piece_white(get_board(friend, board)) = MoverWhite

\* C15 as stated: the enemy-held diagonal capture squares carry the value 2,
\* and no empty or friendly diagonal capture square is marked.
C15_DiagonalCapturesMarkedTwo ==
    (op = "gen_moves" /\ abs(Mover) = IDS[1])
        => \A dx \in {1, -1} :
              LET sq == Diagonal(piece_coordinates, dx)
              IN  fits_in_board(sq)
                  => IF get_board(sq, board) # 0 /\ piece_white(get_board(sq, board)) # MoverWhite
                     THEN get_board(sq, moves_board) = 2
                     ELSE get_board(sq, moves_board) = 0

\* the pieces of one side on the board
PiecesOf(white) ==
    {sq \in Squares : get_board(sq, board) # 0 /\ piece_white(get_board(sq, board)) = white}

\* the grid of the piece on pc alone, from an empty seed
OwnGrid(pc) == gen_moves(pc, board, turns_board, EmptyBoard, last_turn_coordinates)

\* C16: the grid of gen_all_moves is non-zero on a square iff some piece of
\* the side marks the square in its own grid generated from an empty seed,
\* and a square that some piece of the side marks 1 is 1 in the grid of
\* gen_all_moves.
C16_AggregateIsUnionThreatKept ==
    op = "gen_all_moves"
        => \A sq \in Squares :
              /\ (get_board(sq, moves_board) # 0)
                    <=> \E pc \in PiecesOf(team_white) : get_board(sq, OwnGrid(pc)) # 0
              /\ (\E pc \in PiecesOf(team_white) : get_board(sq, OwnGrid(pc)) = 1)
                    => get_board(sq, moves_board) = 1

\* a grid seen from the other side of the board: both axes reversed
Flipped(b) ==
    [x \in Xs |-> [y \in Ys |-> b[BOARD_SIZE[1] - 1 - x][BOARD_SIZE[2] - 1 - y]]]

\* the square sq lies where the geometry of the piece id on from can put a
\* mark when the piece's pawns advance towards smaller y
OpposingReach(id, from, sq) ==
    LET d == <<sq[1] - from[1], sq[2] - from[2]>>
        piece == instantiate_all[abs(id)]
    IN  IF abs(id) = IDS[1]
        THEN d \in {<<0, -1>>, <<0, -2>>, <<1, -1>>, <<-1, -1>>, <<1, 0>>, <<-1, 0>>}
        ELSE \E i \in 1 .. piece.mdir_no : \E k \in 1 .. 7 :
                /\ d = <<k * piece.mdirs[i][1], k * piece.mdirs[i][2]>>
                /\ piece.sliding \/ k = 1

\* C17: the grid of gen_enemy_moves is the grid of the opposing side
\* generated on the position seen from the other side of the board (board,
\* move-counts and last-move coordinate flipped on both axes), flipped
\* back; an opposing pawn with an empty square towards the caller's home
\* rank has that square marked, and every marked square lies within the
\* reach of an opposing piece.
C17_EnemyGridIsFlippedOpposingGrid ==
    op = "gen_enemy_moves"
        => /\ moves_board
                = Flipped(gen_all_moves(Flipped(board), Flipped(turns_board),
                                        <<BOARD_SIZE[1] - 1 - last_turn_coordinates[1],
                                          BOARD_SIZE[2] - 1 - last_turn_coordinates[2]>>,
                                        ~team_white))
           /\ \A from \in PiecesOf(~team_white) :
                 (/\ abs(get_board(from, board)) = IDS[1]
                  /\ from[2] > 0
                  /\ get_board(<<from[1], from[2] - 1>>, board) = 0)
                     => get_board(<<from[1], from[2] - 1>>, moves_board) # 0
           /\ \A sq \in Squares :
                 get_board(sq, moves_board) # 0
                     => \E from \in PiecesOf(~team_white) :
                           OpposingReach(get_board(from, board), from, sq)

\* C17 witness: a pawn of the opposing side whose step towards the caller's
\* home rank is marked, and a pawn of the caller whose step ahead is not
C17_Witness ==
    /\ op = "gen_enemy_moves"
    /\ \E from \in PiecesOf(~team_white) :
          /\ abs(get_board(from, board)) = IDS[1]
          /\ from[2] > 0
          /\ get_board(<<from[1], from[2] - 1>>, moves_board) = 2
    /\ \E own \in PiecesOf(team_white) :
          /\ abs(get_board(own, board)) = IDS[1]
          /\ own[2] < BOARD_SIZE[2] - 1
          /\ get_board(<<own[1], own[2] + 1>>, board) = 0
          /\ get_board(<<own[1], own[2] + 1>>, moves_board) = 0

\* the k-th square straight ahead of the origin
Ahead(k) == <<piece_coordinates[1], piece_coordinates[2] + k>>

\* the number of squares straight ahead of the origin, on the board and
\* empty, before the first occupied square or the edge
FreeAhead ==
    Cardinality({k \in 1 .. 7 :
        \A j \in 1 .. k : fits_in_board(Ahead(j)) /\ get_board(Ahead(j), board) = 0})

\* C18: a pawn's grid marks, straight ahead, the first two squares when its
\* move-count is zero and the first square when it is not, as far as these
\* are empty and not beyond an occupied square; no other square of its file
\* is marked, and each of these marks is 2.
C18_PawnForwardReach ==
    (op = "gen_moves" /\ abs(Mover) = IDS[1])
        => LET cap == IF get_board(piece_coordinates, turns_board) = 0 THEN 2 ELSE 1
               reach == IF FreeAhead < cap THEN FreeAhead ELSE cap
           IN  \A sq \in Squares :
                   sq[1] = piece_coordinates[1]
                       => get_board(sq, moves_board)
                              = (IF \E k \in 1 .. reach : sq = Ahead(k) THEN 2 ELSE 0)

\* C18 witness: a pawn that has moved, with two empty squares ahead and only
\* the first of them marked
C18_Witness ==
    /\ op = "gen_moves" /\ abs(Mover) = IDS[1]
    /\ get_board(piece_coordinates, turns_board) # 0
    /\ FreeAhead >= 2
    /\ get_board(Ahead(1), moves_board) = 2
    /\ get_board(Ahead(2), moves_board) = 0

\* C19: gen_moves leaves an enemy-occupied square straight ahead of a pawn
\* unmarked and marks no square of the file beyond it, and valid_move returns
\* the board unchanged for a pawn asked to move onto an occupied square
\* straight ahead, whatever stands there.
C19_PawnNeverCapturesAhead ==
    /\ (op = "gen_moves" /\ abs(Mover) = IDS[1])
          => \A k \in 1 .. 7 :
                (/\ fits_in_board(Ahead(k))
                 /\ get_board(Ahead(k), board) # 0
                 /\ piece_white(get_board(Ahead(k), board)) # MoverWhite)
                    => \A j \in k .. 7 :
                          fits_in_board(Ahead(j)) => get_board(Ahead(j), moves_board) = 0
    /\ (/\ op = "valid_move" /\ abs(Mover) = IDS[1]
        /\ move_coordinates[1] = piece_coordinates[1]
        /\ move_coordinates[2] > piece_coordinates[2]
        /\ get_board(move_coordinates, board) # 0)
          => result_board = board

\* C19 witness: a pawn asked to step onto the enemy king straight ahead
C19_Witness ==
    /\ op = "valid_move" /\ abs(Mover) = IDS[1]
    /\ move_coordinates = Ahead(1)
    /\ abs(get_board(move_coordinates, board)) = IDS[6]
    /\ piece_white(get_board(move_coordinates, board)) # MoverWhite
    /\ get_board(move_coordinates, moves_board) = 0
    /\ result_board = board

\* C20: when castle succeeds the returned board differs from the input in
\* exactly four squares: the king's origin and the rook's corner are empty,
\* the king stands two squares from its origin towards that corner, and the
\* rook stands on the square between, which is on file 5 for the corner
\* [7, 0] and on file 3 for the corner [0, 0].
C20_CastleRelocatesKingAndRook ==
    Castled
        => \E dir \in {1, -1} :
              LET corner == IF dir = 1 THEN <<7, 0>> ELSE <<0, 0>>
                  king_to == <<piece_coordinates[1] + 2 * dir, piece_coordinates[2]>>
                  rook_to == <<piece_coordinates[1] + dir, piece_coordinates[2]>>
              IN  /\ Changed(board, result_board) = {piece_coordinates, corner, king_to, rook_to}
                  /\ Cardinality(Changed(board, result_board)) = 4
                  /\ get_board(piece_coordinates, result_board) = 0
                  /\ get_board(corner, result_board) = 0
                  /\ get_board(king_to, result_board) = IDS[6]
                  /\ get_board(rook_to, result_board) = IDS[2]
                  /\ rook_to[1] = (IF dir = 1 THEN 5 ELSE 3)

\* the board castle returns for the request of the last call, with the
\* opponent's grid valid_move hands it
CastleResult ==
    castle(piece_coordinates, move_coordinates, board, turns_board,
           gen_enemy_moves(board, turns_board, last_turn_coordinates, MoverWhite))

\* the corner towards which the request moves the king
CornerTowards ==
    IF move_coordinates[1] > piece_coordinates[1] THEN <<7, 0>> ELSE <<0, 0>>

\* C21: castle returns the input board whenever the king's move-count is
\* non-zero, or the king's square has a non-zero marker in the opponent's
\* grid, or the corner towards which the king moves does not hold a rook of
\* the king's side with move-count zero.
C21_CastleRefusedWithoutEligibility ==
    (/\ op = "valid_move" /\ abs(Mover) = IDS[6]
     /\ \/ get_board(piece_coordinates, turns_board) # 0
        \/ get_board(piece_coordinates,
                     gen_enemy_moves(board, turns_board, last_turn_coordinates, MoverWhite)) # 0
        \/ abs(get_board(CornerTowards, board)) # IDS[2]
        \/ piece_white(get_board(CornerTowards, board)) # MoverWhite
        \/ get_board(CornerTowards, turns_board) # 0)
        => CastleResult = board

\* C21 witness: a king that has moved, asked to go two files towards a
\* corner that holds its rook with move-count zero, over two empty squares
C21_Witness ==
    /\ op = "valid_move" /\ Mover = IDS[6]
    /\ get_board(piece_coordinates, turns_board) # 0
    /\ \E dir \in {1, -1} :
          /\ move_coordinates = <<piece_coordinates[1] + 2 * dir, piece_coordinates[2]>>
          /\ get_board(<<piece_coordinates[1] + dir, piece_coordinates[2]>>, board) = 0
          /\ get_board(move_coordinates, board) = 0
    /\ get_board(CornerTowards, board) = IDS[2]
    /\ get_board(CornerTowards, turns_board) = 0
    /\ result_board = board

\* C22: valid_move relocates a piece only to a destination its grid marks 1
\* or 2; a destination that carries the en-passant victim marker -1 is never
\* accepted.
C22_RelocatesOnlyToReachableMarker ==
    (op = "valid_move" /\ result_board # board /\ ~Castled)
        => get_board(move_coordinates, moves_board) \in {1, 2}

----------------------------------------------------------------------------
(* Calls of best_move at a node: what the call returns and leaves behind    *)

PositionHash == gen_zobrist_board_hash(position.whites_turn, position.played)

ReturnedPair == <<search.result.piece_coordinates, search.result.move_coordinates>>

\* the call got past the depth test and found no entry for its position, and
\* the position makes the turn application signal checkmate or stalemate
TerminalSignal ==
    /\ ~search.idle
    /\ search.current_depth < search.search_depth
    /\ PositionHash \notin DOMAIN search.table
    /\ Applicable(position) = {}
    /\ game.ending \in {STALEMATE_ERROR, CHECKMATE_ERROR}

\* C23: a call whose scan meets a checkmate or stalemate signal returns the
\* signalled value at a master node and its negation at a non-master node,
\* whatever value was accumulated, with the pair that signalled, which is the
\* last pair the scan attempted, and leaves no entry for the node in the table
C23_TerminalSignalReturnsAtOnce ==
    TerminalSignal
        => /\ search.result.value = (IF search.master_team THEN game.ending_value
                                                          ELSE 0 - game.ending_value)
           /\ ReturnedPair \in search.tried
           /\ \A pair \in search.tried : ScanKey(pair) <= ScanKey(ReturnedPair)
           /\ PositionHash \notin DOMAIN transposition_table

C23_Witness ==
    /\ TerminalSignal
    /\ op = "node"
    /\ ~search.master_team
    /\ search.init_val # 0
    /\ game.ending_value # 0
    /\ search.result.value = 0 - game.ending_value
    /\ search.tried = {ReturnedPair}
    /\ transposition_table = search.table

\* the entry of the table the call started with would answer the call
UsableEntry ==
    /\ PositionHash \in DOMAIN search.table
    /\ search.table[PositionHash].search_depth >= search.search_depth
    /\ search.table[PositionHash].current_depth >= search.current_depth

\* C24: a call whose ply equals the depth budget returns origin [0,0],
\* destination [0,0] and the accumulated value, hands no pair to the turn
\* application and leaves the table as it was, whatever the table holds
C24_LastBranchReturnsAccumulated ==
    (~search.idle /\ search.current_depth = search.search_depth)
        => /\ search.result = BranchValue(<<0, 0>>, <<0, 0>>, search.init_val)
           /\ search.tried = {}
           /\ transposition_table = search.table

C24_Witness ==
    /\ op = "node"
    /\ search.current_depth = search.search_depth
    /\ search.init_val # 0
    /\ UsableEntry
    /\ search.table[PositionHash].max.value # search.init_val
    /\ search.table[PositionHash].min.value # search.init_val
    /\ Applicable(position) # {}
    /\ search.result = BranchValue(<<0, 0>>, <<0, 0>>, search.init_val)
    /\ search.tried = {}
    /\ transposition_table = search.table

\* the call answered from the table: it got past the depth test, handed no
\* pair to the turn application, left the table alone and returned the value
\* the entry of its position holds for its side
AnsweredFromTable ==
    /\ ~search.idle
    /\ search.current_depth < search.search_depth
    /\ PositionHash \in DOMAIN search.table
    /\ search.tried = {}
    /\ transposition_table = search.table
    /\ search.result = (IF search.master_team THEN search.table[PositionHash].max
                                              ELSE search.table[PositionHash].min)

\* C25: a call answered from the table is answered by an entry whose
\* remaining depth (stored budget minus stored ply) is at least the remaining
\* depth of the call (its budget minus its ply)
C25_HitHasEnoughRemainingDepth ==
    AnsweredFromTable
        => search.table[PositionHash].search_depth - search.table[PositionHash].current_depth
               >= search.search_depth - search.current_depth

\* the call scanned its node to the end: it was below its budget, found no
\* entry for its position, had no inherited bound to cut it off, and the
\* position has a move, so that no pair signals checkmate or stalemate
ScannedToTheEnd ==
    /\ ~search.idle
    /\ search.current_depth < search.search_depth
    /\ PositionHash \notin DOMAIN search.table
    /\ search.parent_value = << >>
    /\ Applicable(position) # {}

\* C26: a scan that is neither cut off nor ended by a terminal signal hands
\* every ordered pair to the turn application, except the one pair of the
\* seed when the node has a seed
C26_ScanAttemptsAllButSeed ==
    ScannedToTheEnd
        => /\ search.tried \subseteq ScanPairs
           /\ Cardinality(ScanPairs \ search.tried) <= 1

\* C27: a call of best_move with its ply at most its budget returns, and the
\* calls of best_move below it (the children of its scan, the seed pass of a
\* root and the child of the seed) nest no deeper than budget minus ply
C27_NestingWithinRemainingDepth ==
    ~search.idle => search.nesting <= search.search_depth - search.current_depth

\* a root whose seed passes and a node whose children reach the bound
C27_Witness ==
    /\ ~search.idle
    /\ search.search_depth - search.current_depth >= 2
    /\ search.nesting = search.search_depth - search.current_depth
    /\ \/ search.current_depth = 0 /\ search.search_depth = MaxDepth
       \/ op = "node"

----------------------------------------------------------------------------
(* Move ordering: what order_moves returns                                  *)

\* the board information after the accepted move of the piece on pc to mc
AfterMove(pc, mc) == gen_move_board(pc, mc, board, turns_board, last_turn_coordinates)

\* the relocations of the side to move that are accepted
AcceptedRelocations ==
    {pair \in Squares \X Squares :
        /\ get_board(pair[1], board) # 0
        /\ piece_white(get_board(pair[1], board)) = team_white
        /\ AfterMove(pair[1], pair[2]).board # board}

\* after the move the opponent attacks the destination and the mover's side
\* does not defend it
TakenBack(pc, mc) ==
    /\ get_board(mc, gen_enemy_moves(AfterMove(pc, mc).board, AfterMove(pc, mc).turns_board,
                                     AfterMove(pc, mc).last_turn_coordinates, team_white)) = 1
    /\ get_board(mc, gen_all_moves(AfterMove(pc, mc).board, AfterMove(pc, mc).turns_board,
                                   AfterMove(pc, mc).last_turn_coordinates, team_white)) = 0

TradeScore(pc, mc) ==
    value_on(mc, board) - (IF TakenBack(pc, mc) THEN value_on(pc, board) ELSE 0)

\* C28: order_moves returns the accepted relocations of the side to move, in
\* descending order of their score, the score of a move being the material
\* value of the piece on its destination, less the moving piece's own value
\* when after the move the opponent attacks the destination and the mover's
\* side does not defend it
C28_OrderedByTradeScore ==
    op = "order_moves"
        => /\ {<<ordered_moves[i].piece_coordinates, ordered_moves[i].move_coordinates>> :
                   i \in 1 .. Len(ordered_moves)} = AcceptedRelocations
           /\ \A i, j \in 1 .. Len(ordered_moves) :
                  i < j => ordered_moves[i].value >= ordered_moves[j].value
           /\ \A i \in 1 .. Len(ordered_moves) :
                  ordered_moves[i].value = TradeScore(ordered_moves[i].piece_coordinates,
                                                      ordered_moves[i].move_coordinates)

\* the corners castle reads its rooks from
CastleCorners == {<<7, 0>>, <<0, 0>>}

\* C29: castle changes the board only for the king of the first side
\* (id 6), on whatever rank it stands, and then a rook of the first side
\* (id 2) with move-count zero has left [7,0] or [0,0]; for the king of the
\* second side (id -6) castle returns its input and valid_move returns the
\* input or the plain relocation
C29_OnlyFirstSideCastles ==
    (op = "valid_move" /\ abs(Mover) = IDS[6])
        => /\ CastleResult # board
                => /\ Mover = IDS[6]
                   /\ \E corner \in CastleCorners :
                          /\ get_board(corner, board) = IDS[2]
                          /\ get_board(corner, turns_board) = 0
                          /\ get_board(corner, CastleResult) # IDS[2]
           /\ Mover = 0 - IDS[6]
                => /\ CastleResult = board
                   /\ result_board \in {board, post_move_board(piece_coordinates,
                                                               move_coordinates, board)}

\* the king of the second side, unmoved and unattacked, asks for the square
\* two files towards its unmoved rook over free squares and is refused
C29_Witness ==
    /\ op = "valid_move"
    /\ Mover = 0 - IDS[6]
    /\ get_board(piece_coordinates, turns_board) = 0
    /\ move_coordinates = <<piece_coordinates[1] + 2, piece_coordinates[2]>>
    /\ get_board(<<piece_coordinates[1] + 1, piece_coordinates[2]>>, board) = 0
    /\ get_board(move_coordinates, board) = 0
    /\ get_board(<<7, piece_coordinates[2]>>, board) = 0 - IDS[2]
    /\ get_board(<<7, piece_coordinates[2]>>, turns_board) = 0
    /\ gen_enemy_moves(board, turns_board, last_turn_coordinates, FALSE) = EmptyBoard
    /\ result_board = board

\* the call scanned a position without a move in which every pair is
\* answered as an invalid move: nothing is applied and nothing signalled
NothingApplies ==
    /\ ~search.idle
    /\ search.current_depth < search.search_depth
    /\ PositionHash \notin DOMAIN search.table
    /\ Applicable(position) = {}
    /\ game.ending = INVALID_MOVE_ERROR

\* C30: a call below its budget whose scan applies no pair and meets no
\* checkmate or stalemate signal returns origin [0,0], destination [0,0] and
\* value 0, whatever value was accumulated, and stores that zero record as
\* both the max and the min of the position, with the call's budget and ply
C30_NothingAppliedReturnsZero ==
    NothingApplies
        => /\ search.result = BranchValue_new
           /\ PositionHash \in DOMAIN transposition_table
           /\ transposition_table[PositionHash]
                  = TranspositionInfo(BranchValue_new, BranchValue_new,
                                      search.search_depth, search.current_depth)

C30_Witness ==
    /\ NothingApplies
    /\ op = "node"
    /\ search.init_val # 0
    /\ search.tried # {}
    /\ search.result = BranchValue_new
    /\ transposition_table[PositionHash].max = BranchValue_new
    /\ transposition_table[PositionHash].min = BranchValue_new

============================================================================
